---- MODULE Spec2Model ----
(***************************************************************************)
(* Verification model of rumqttc's MQTT v5 Auth packet codec               *)
(* (rumqttc/src/v5/mqttbytes/v5/auth.rs) and of the session behaviour the  *)
(* v5 examples rely on (manual acks, packet identifiers, request queue).   *)
(*                                                                         *)
(* Bytes are integers 0..255, byte buffers and strings are sequences of    *)
(* bytes.  Option<T> is a sequence of length 0 (None) or 1 (Some).         *)
(* Result<T, Error> is a record [tag, val, err, arg, rest]: tag is "Ok",   *)
(* "Err" or "Panic", val = <<v>> for Ok(v), err/arg name the error and     *)
(* its payload, rest is what is left of the input buffer after the call.   *)
(***************************************************************************)
EXTENDS Integers, Sequences, FiniteSets, TLC

VARIABLES
    \* --- Auth::size / Auth::write / Auth::read on a packet value
    pc, auth, buffer, size_ret, write_ret, read_ret,
    \* --- Auth::read / AuthProperties::read on an arbitrary input buffer
    rpc, inbuf, rd, pr,
    \* --- AuthReasonCode::read / AuthReasonCode::write
    rc_pc, rc_byte, rc_ret, rc_out,
    \* --- manual acknowledgment of inbound publishes
    manual_acks, conn_state, incoming_pub, acks_sent, last_op, inbound_n,
    \* --- packet identifier allocation for outbound publishes
    last_pkid, outgoing_pub, i, run, fresh,
    \* --- bounded request queue and the event loop that drains it
    mode, request_q, loop_pc, tasks, net_n

codecVars  == <<pc, auth, buffer, size_ret, write_ret, read_ret>>
readVars   == <<rpc, inbuf, rd, pr>>
reasonVars == <<rc_pc, rc_byte, rc_ret, rc_out>>
ackVars    == <<manual_acks, conn_state, incoming_pub, acks_sent, last_op,
               inbound_n>>
pubVars    == <<last_pkid, outgoing_pub, i, run, fresh>>
loopVars   == <<mode, request_q, loop_pc, tasks, net_n>>
vars == <<codecVars, readVars, reasonVars, ackVars, pubVars, loopVars>>

----------------------------------------------------------------------------
(* Results and options *)

None == <<>>
Some(v) == <<v>>

Ok(v, rest) == [tag |-> "Ok", val |-> <<v>>, err |-> "", arg |-> 0, rest |-> rest]
Err(e, n) == [tag |-> "Err", val |-> <<>>, err |-> e, arg |-> n, rest |-> <<>>]
Panic == [tag |-> "Panic", val |-> <<>>, err |-> "", arg |-> 0, rest |-> <<>>]
NoResult == [tag |-> "None", val |-> <<>>, err |-> "", arg |-> 0, rest |-> <<>>]

Byte == 0..255

Drop(s, n) == SubSeq(s, n + 1, Len(s))
Take(s, n) == SubSeq(s, 1, n)

----------------------------------------------------------------------------
(* Helpers of the parent module (mqttbytes/v5/mod.rs)                      *)

\* len_len: number of bytes of the variable-byte integer encoding of len
len_len(len) ==
    IF len >= 2097152 THEN 4
    ELSE IF len >= 16384 THEN 3
    ELSE IF len >= 128 THEN 2
    ELSE 1

\* the bytes of the variable-byte integer: 7 data bits per byte, low group
\* first, top bit set on every byte but the last
RECURSIVE VarInt(_)
VarInt(n) ==
    IF n < 128 THEN <<n>>
    ELSE <<(n % 128) + 128>> \o VarInt(n \div 128)

\* write_remaining_length: appends the variable-byte integer, returns the
\* number of bytes it took; values above 268,435,455 are refused
write_remaining_length(buf, len) ==
    IF len > 268435455
    THEN Err("PayloadTooLong", 0)
    ELSE Ok(Len(VarInt(len)), buf \o VarInt(len))

\* length: decodes a variable-byte integer from the front of the stream,
\* returns <<bytes consumed, value>>; the stream itself is not advanced
RECURSIVE length_loop(_, _, _, _)
length_loop(stream, n, len, mult) ==
    IF n >= Len(stream) THEN Err("InsufficientBytes", 1)
    ELSE LET byte == stream[n + 1]
             len2 == len + (byte % 128) * mult
         IN IF byte < 128 THEN Ok(<<n + 1, len2>>, stream)
            ELSE IF n + 1 >= 4 THEN Err("MalformedPacket", 0)
            ELSE length_loop(stream, n + 1, len2, mult * 128)

length(stream) == length_loop(stream, 0, 0, 1)

read_u8(stream) ==
    IF Len(stream) < 1 THEN Err("InsufficientBytes", 1)
    ELSE Ok(stream[1], Drop(stream, 1))

read_u16(stream) ==
    IF Len(stream) < 2 THEN Err("InsufficientBytes", 2)
    ELSE Ok(stream[1] * 256 + stream[2], Drop(stream, 2))

\* 2-byte big-endian length prefix + raw bytes
read_mqtt_bytes(stream) ==
    LET l == read_u16(stream) IN
    IF l.tag # "Ok" THEN l
    ELSE IF l.val[1] > Len(l.rest) THEN Err("InsufficientBytes", l.val[1])
    ELSE Ok(Take(l.rest, l.val[1]), Drop(l.rest, l.val[1]))

\* The byte alphabets used below contain no byte of a valid multi-byte
\* UTF-8 sequence other than 0xFF (never valid), so a byte string is UTF-8
\* exactly when all its bytes are ASCII.
IsUtf8(s) == \A k \in 1..Len(s) : s[k] < 128

\* 2-byte big-endian length prefix + UTF-8 bytes
read_mqtt_string(stream) ==
    LET s == read_mqtt_bytes(stream) IN
    IF s.tag # "Ok" THEN s
    ELSE IF ~IsUtf8(s.val[1]) THEN Err("MalformedPacket", 0)
    ELSE s

write_mqtt_bytes(buf, bytes) ==
    buf \o <<Len(bytes) \div 256, Len(bytes) % 256>> \o bytes

write_mqtt_string(buf, string) == write_mqtt_bytes(buf, string)

\* PropertyType: the identifier -> property table of MQTT v5
PropertyTable ==
    [x \in {1, 2, 3, 8, 9, 11, 17, 18, 19, 21, 22, 23, 24, 25, 26, 28, 31,
            33, 34, 35, 36, 37, 38, 39, 40, 41, 42} |->
        CASE x = 1 -> "PayloadFormatIndicator"
          [] x = 2 -> "MessageExpiryInterval"
          [] x = 3 -> "ContentType"
          [] x = 8 -> "ResponseTopic"
          [] x = 9 -> "CorrelationData"
          [] x = 11 -> "SubscriptionIdentifier"
          [] x = 17 -> "SessionExpiryInterval"
          [] x = 18 -> "AssignedClientIdentifier"
          [] x = 19 -> "ServerKeepAlive"
          [] x = 21 -> "AuthenticationMethod"
          [] x = 22 -> "AuthenticationData"
          [] x = 23 -> "RequestProblemInformation"
          [] x = 24 -> "WillDelayInterval"
          [] x = 25 -> "RequestResponseInformation"
          [] x = 26 -> "ResponseInformation"
          [] x = 28 -> "ServerReference"
          [] x = 31 -> "ReasonString"
          [] x = 33 -> "ReceiveMaximum"
          [] x = 34 -> "TopicAliasMaximum"
          [] x = 35 -> "TopicAlias"
          [] x = 36 -> "MaximumQos"
          [] x = 37 -> "RetainAvailable"
          [] x = 38 -> "UserProperty"
          [] x = 39 -> "MaximumPacketSize"
          [] x = 40 -> "WildcardSubscriptionAvailable"
          [] x = 41 -> "SubscriptionIdentifierAvailable"
          [] x = 42 -> "SharedSubscriptionAvailable"]

PropertyId(name) == CHOOSE x \in DOMAIN PropertyTable : PropertyTable[x] = name

\* property: identifier byte -> PropertyType, InvalidPropertyType otherwise
property(num) ==
    IF num \in DOMAIN PropertyTable
    THEN Ok(PropertyTable[num], <<>>)
    ELSE Err("InvalidPropertyType", num)

----------------------------------------------------------------------------
(* AuthReasonCode                                                          *)

AuthReasonCode == {"Success", "Continue", "ReAuthenticate"}

AuthReasonCode_read_coerce(bytes) ==
    LET reason_code == read_u8(bytes) IN
    IF reason_code.tag # "Ok" THEN reason_code
    ELSE CASE reason_code.val[1] = 0 -> Ok("Success", reason_code.rest)
           [] reason_code.val[1] = 24 -> Ok("Continue", reason_code.rest)
           [] reason_code.val[1] = 25 -> Ok("ReAuthenticate", reason_code.rest)
           [] OTHER -> Ok("Success", reason_code.rest)

AuthReasonCode_read(bytes) ==
    LET reason_code == read_u8(bytes) IN
    IF reason_code.tag # "Ok" THEN reason_code
    ELSE CASE reason_code.val[1] = 0 -> Ok("Success", reason_code.rest)
           [] reason_code.val[1] = 24 -> Ok("Continue", reason_code.rest)
           [] reason_code.val[1] = 25 -> Ok("ReAuthenticate", reason_code.rest)
           [] OTHER -> Err("MalformedPacket", 0)

AuthReasonCode_write(self, buf) ==
    LET reason_code == CASE self = "Success" -> 0
                         [] self = "Continue" -> 24
                         [] self = "ReAuthenticate" -> 25
    IN Ok(<<>>, buf \o <<reason_code>>)

----------------------------------------------------------------------------
(* AuthProperties                                                          *)

DefaultProperties ==
    [method |-> None, data |-> None, reason_string |-> None,
     user_properties |-> <<>>]

RECURSIVE user_properties_len(_)
user_properties_len(ups) ==
    IF ups = <<>> THEN 0
    ELSE 1 + 2 + Len(ups[1][1]) + 2 + Len(ups[1][2])
           + user_properties_len(Tail(ups))

AuthProperties_len(self) ==
    (IF self.method # None THEN 1 + 2 + Len(self.method[1]) ELSE 0)
    + (IF self.data # None THEN 1 + 2 + Len(self.data[1]) ELSE 0)
    + (IF self.reason_string # None THEN 1 + 2 + Len(self.reason_string[1]) ELSE 0)
    + user_properties_len(self.user_properties)

RECURSIVE write_user_properties(_, _)
write_user_properties(buf, ups) ==
    IF ups = <<>> THEN buf
    ELSE write_user_properties(
            write_mqtt_string(
                write_mqtt_string(buf \o <<PropertyId("UserProperty")>>, ups[1][1]),
                ups[1][2]),
            Tail(ups))

AuthProperties_write(self, buf) ==
    LET l == write_remaining_length(buf, AuthProperties_len(self)) IN
    IF l.tag # "Ok" THEN l
    ELSE
      LET b1 == IF self.method # None
                THEN write_mqtt_string(
                        l.rest \o <<PropertyId("AuthenticationMethod")>>,
                        self.method[1])
                ELSE l.rest
          b2 == IF self.data # None
                THEN write_mqtt_bytes(
                        b1 \o <<PropertyId("AuthenticationData")>>,
                        self.data[1])
                ELSE b1
          b3 == IF self.reason_string # None
                THEN write_mqtt_string(
                        b2 \o <<PropertyId("ReasonString")>>,
                        self.reason_string[1])
                ELSE b2
      IN Ok(<<>>, write_user_properties(b3, self.user_properties))

\* the wildcard arm of the match on the property type
OtherProperty_malformed(prop) == Err("MalformedPacket", 0)

OtherProperty(prop) == Err("InvalidPropertyType", prop)

\* the while loop of AuthProperties::read; cursor is the loop's own count
\* of the bytes it has read, bytes is what is left of the input
RECURSIVE read_loop(_, _, _, _)
read_loop(bytes, cursor, properties_len, props) ==
    IF ~(cursor < properties_len) THEN Ok(Some(props), bytes)
    ELSE
      LET prop == read_u8(bytes) IN
      IF prop.tag # "Ok" THEN prop
      ELSE
        LET ty == property(prop.val[1]) IN
        IF ty.tag # "Ok" THEN ty
        ELSE
          CASE ty.val[1] = "AuthenticationMethod" ->
                 LET method == read_mqtt_string(prop.rest) IN
                 IF method.tag # "Ok" THEN method
                 ELSE read_loop(method.rest,
                                cursor + 1 + Len(method.val[1]),
                                properties_len,
                                [props EXCEPT !.method = Some(method.val[1])])
            [] ty.val[1] = "AuthenticationData" ->
                 LET data == read_mqtt_bytes(prop.rest) IN
                 IF data.tag # "Ok" THEN data
                 ELSE read_loop(data.rest,
                                cursor + 1 + 2 + Len(data.val[1]),
                                properties_len,
                                [props EXCEPT !.data = Some(data.val[1])])
            [] ty.val[1] = "ReasonString" ->
                 LET reason == read_mqtt_string(prop.rest) IN
                 IF reason.tag # "Ok" THEN reason
                 ELSE read_loop(reason.rest,
                                cursor + 1 + Len(reason.val[1]),
                                properties_len,
                                [props EXCEPT !.reason_string = Some(reason.val[1])])
            [] ty.val[1] = "UserProperty" ->
                 LET key == read_mqtt_string(prop.rest) IN
                 IF key.tag # "Ok" THEN key
                 ELSE
                   LET value == read_mqtt_string(key.rest) IN
                   IF value.tag # "Ok" THEN value
                   ELSE read_loop(value.rest,
                                  cursor + 1 + 2 + Len(key.val[1]) + 2 + Len(value.val[1]),
                                  properties_len,
                                  [props EXCEPT !.user_properties =
                                      Append(@, <<key.val[1], value.val[1]>>)])
            [] OTHER -> OtherProperty(prop.val[1])

AuthProperties_read(bytes) ==
    LET l == length(bytes) IN
    IF l.tag # "Ok" THEN l
    ELSE
      LET properties_len_len == l.val[1][1]
          properties_len == l.val[1][2]
          advanced == Drop(bytes, properties_len_len)
      IN IF properties_len = 0 THEN Ok(None, advanced)
         ELSE read_loop(advanced, 0, properties_len, DefaultProperties)

----------------------------------------------------------------------------
(* Auth                                                                    *)

Auth_new(reason, properties) == [reason |-> reason, properties |-> properties]

Auth_len(self) ==
    1 + 1 + (IF self.properties # None
             THEN AuthProperties_len(self.properties[1]) ELSE 0)

Auth_size(self) ==
    LET len == Auth_len(self)
        remaining_len_size == len_len(len)
    IN 1 + remaining_len_size + len

\* Bytes::advance panics when asked to advance past the end of the buffer
Auth_read(fixed_header_len, bytes) ==
    IF fixed_header_len > Len(bytes) THEN Panic
    ELSE
      LET reason == AuthReasonCode_read(Drop(bytes, fixed_header_len)) IN
      IF reason.tag # "Ok" THEN reason
      ELSE
        LET properties == AuthProperties_read(reason.rest) IN
        IF properties.tag # "Ok" THEN properties
        ELSE Ok(Auth_new(reason.val[1], properties.val[1]), properties.rest)

Auth_write(self, buf) ==
    LET len == Auth_len(self)
        count == write_remaining_length(buf \o <<240>>, len)
    IN
    IF count.tag # "Ok" THEN count
    ELSE
      LET r == AuthReasonCode_write(self.reason, count.rest)
          p == IF self.properties # None
               THEN AuthProperties_write(self.properties[1], r.rest)
               ELSE write_remaining_length(r.rest, 0)
      IN IF p.tag # "Ok" THEN p
         ELSE Ok(1 + count.val[1] + len, p.rest)

\* FixedHeader of an encoded packet: control byte + remaining-length bytes
parse_fixed_header_len(bytes) ==
    LET l == length(Drop(bytes, 1)) IN 1 + l.val[1][1]

----------------------------------------------------------------------------
(* Idle values of the variables a specification does not use               *)

CodecIdle ==
    /\ pc = "idle" /\ auth = Auth_new("Success", None) /\ buffer = <<>>
    /\ size_ret = 0 /\ write_ret = NoResult /\ read_ret = NoResult
ReadIdle == rpc = "idle" /\ inbuf = <<>> /\ rd = NoResult /\ pr = NoResult
ReasonIdle ==
    /\ rc_pc = "idle" /\ rc_byte = <<>> /\ rc_ret = NoResult
    /\ rc_out = [variant |-> "Success", bytes |-> <<>>, back |-> NoResult]
AckIdle ==
    /\ manual_acks = FALSE /\ conn_state = "Disconnected"
    /\ incoming_pub = {} /\ acks_sent = <<>> /\ inbound_n = 0
    /\ last_op = [n |-> 0, op |-> "none", pkid |-> 0, ret |-> "none"]
PubIdle ==
    /\ last_pkid = 0 /\ outgoing_pub = {} /\ i = 0 /\ run = <<>>
    /\ fresh = FALSE
LoopIdle ==
    /\ mode = "idle" /\ request_q = <<>> /\ loop_pc = "idle"
    /\ tasks = 0 /\ net_n = 0

----------------------------------------------------------------------------
(* Specification Spec: size, write and read of Auth packet values          *)

MaxUserProps == 2

Long(n) == [k \in 1..n |-> 97]

\* lengths on both sides of the 128-byte boundary of the property block
\* (1 + 2 + 125 = 128) and of the remaining length (2 + 1 + 2 + 123 = 128)
MethodSet == {<<>>, <<109>>, Long(123), Long(124), Long(125)}
DataSet == {<<>>, <<255>>, Long(125)}
ReasonStringSet == {<<>>, <<114>>, Long(125)}
UserStringSet == {<<>>, <<107>>}

Opt(S) == {None} \cup {Some(x) : x \in S}

SeqUpTo(S, n) == UNION {[1..k -> S] : k \in 0..n}

AuthPropertiesValues ==
    [method : Opt(MethodSet), data : Opt(DataSet),
     reason_string : Opt(ReasonStringSet),
     user_properties : SeqUpTo(UserStringSet \X UserStringSet, MaxUserProps)]

AuthValues ==
    {Auth_new(r, p) : r \in AuthReasonCode, p \in Opt(AuthPropertiesValues)}

Init ==
    /\ pc = "new"
    /\ auth \in AuthValues
    /\ buffer = <<>>
    /\ size_ret = 0
    /\ write_ret = NoResult
    /\ read_ret = NoResult
    /\ ReadIdle /\ ReasonIdle /\ AckIdle /\ PubIdle /\ LoopIdle

\* let size_from_size = auth_pkt.size();
CallSize ==
    /\ pc = "new"
    /\ size_ret' = Auth_size(auth)
    /\ pc' = "sized"
    /\ UNCHANGED <<auth, buffer, write_ret, read_ret>>
    /\ UNCHANGED <<readVars, reasonVars, ackVars, pubVars, loopVars>>

\* let size_from_write = auth_pkt.write(&mut dummy_bytes)
CallWrite ==
    /\ pc = "sized"
    /\ write_ret' = [Auth_write(auth, buffer) EXCEPT !.rest = <<>>]
    /\ buffer' = Auth_write(auth, buffer).rest
    /\ pc' = "written"
    /\ UNCHANGED <<auth, size_ret, read_ret>>
    /\ UNCHANGED <<readVars, reasonVars, ackVars, pubVars, loopVars>>

\* Auth::read(fixed_header, bytes) on the bytes just written
CallRead ==
    /\ pc = "written"
    /\ write_ret.tag = "Ok"
    /\ read_ret' = [Auth_read(parse_fixed_header_len(buffer), buffer)
                        EXCEPT !.rest = <<>>]
    /\ pc' = "read"
    /\ UNCHANGED <<auth, buffer, size_ret, write_ret>>
    /\ UNCHANGED <<readVars, reasonVars, ackVars, pubVars, loopVars>>

Next == CallSize \/ CallWrite \/ CallRead

Spec == Init /\ [][Next]_vars

\* C1: for every Auth value, Auth::size(), the value returned by
\* Auth::write() and the number of bytes write() appended all agree.
SizeEqualsWritten ==
    pc \in {"written", "read"} =>
        /\ write_ret.tag = "Ok"
        /\ size_ret = write_ret.val[1]
        /\ write_ret.val[1] = Len(buffer)

\* C2: reading back the bytes written for an Auth value returns Ok with a
\* value equal to the one written.
RoundTrip ==
    pc = "read" => read_ret.tag = "Ok" /\ read_ret.val[1] = auth

\* C3: the bytes written are 0xF0, a remaining length equal to the number
\* of bytes after it, the reason code byte, and a property block whose
\* length prefix equals the number of bytes after the prefix.
WireLayout ==
    pc \in {"written", "read"} =>
        /\ Len(buffer) >= 1 /\ buffer[1] = 240
        /\ LET rl == length(Drop(buffer, 1)) IN
            /\ rl.tag = "Ok"
            /\ LET body == Drop(buffer, 1 + rl.val[1][1]) IN
                /\ rl.val[1][2] = Len(body)
                /\ Len(body) >= 1
                /\ body[1] = (CASE auth.reason = "Success" -> 0
                                [] auth.reason = "Continue" -> 24
                                [] auth.reason = "ReAuthenticate" -> 25)
                /\ LET pl == length(Drop(body, 1)) IN
                    /\ pl.tag = "Ok"
                    /\ pl.val[1][2] = Len(body) - 1 - pl.val[1][1]
                    /\ (auth.properties = None =>
                            pl.val[1][1] = 1 /\ pl.val[1][2] = 0)

----------------------------------------------------------------------------
(* Specification SpecReason: AuthReasonCode::read on every byte and        *)
(* AuthReasonCode::write on every variant                                  *)

InitReason ==
    /\ rc_pc = "new"
    /\ rc_byte \in {<<>>} \cup {<<b>> : b \in Byte}
    /\ rc_ret = NoResult
    /\ rc_out = [variant |-> "Success", bytes |-> <<>>, back |-> NoResult]
    /\ CodecIdle /\ ReadIdle /\ AckIdle /\ PubIdle /\ LoopIdle

ReasonRead ==
    /\ rc_pc = "new"
    /\ rc_ret' = AuthReasonCode_read(rc_byte)
    /\ rc_pc' = "read"
    /\ UNCHANGED <<rc_byte, rc_out>>
    /\ UNCHANGED <<codecVars, readVars, ackVars, pubVars, loopVars>>

ReasonWrite ==
    /\ rc_pc = "read"
    /\ \E v \in AuthReasonCode :
        rc_out' = [variant |-> v,
                   bytes |-> AuthReasonCode_write(v, <<>>).rest,
                   back |-> NoResult]
    /\ rc_pc' = "written"
    /\ UNCHANGED <<rc_byte, rc_ret>>
    /\ UNCHANGED <<codecVars, readVars, ackVars, pubVars, loopVars>>

ReasonReadBack ==
    /\ rc_pc = "written"
    /\ rc_out' = [rc_out EXCEPT !.back = AuthReasonCode_read(rc_out.bytes)]
    /\ rc_pc' = "readback"
    /\ UNCHANGED <<rc_byte, rc_ret>>
    /\ UNCHANGED <<codecVars, readVars, ackVars, pubVars, loopVars>>

NextReason == ReasonRead \/ ReasonWrite \/ ReasonReadBack

SpecReason == InitReason /\ [][NextReason]_vars

\* C5: AuthReasonCode::read maps 0x00, 0x18, 0x19 to Success, Continue,
\* ReAuthenticate and answers MalformedPacket, with no reason code, for
\* every other byte; write emits the same byte per variant, and reading
\* what was written gives the variant back.
ReasonCodeTable ==
    /\ (rc_pc \in {"read", "written", "readback"} /\ rc_byte # <<>>) =>
        IF rc_byte[1] = 0
        THEN rc_ret.tag = "Ok" /\ rc_ret.val = <<"Success">>
        ELSE IF rc_byte[1] = 24
        THEN rc_ret.tag = "Ok" /\ rc_ret.val = <<"Continue">>
        ELSE IF rc_byte[1] = 25
        THEN rc_ret.tag = "Ok" /\ rc_ret.val = <<"ReAuthenticate">>
        ELSE rc_ret.tag = "Err" /\ rc_ret.err = "MalformedPacket"
             /\ rc_ret.val = <<>>
    /\ rc_pc \in {"written", "readback"} =>
        rc_out.bytes = (CASE rc_out.variant = "Success" -> <<0>>
                          [] rc_out.variant = "Continue" -> <<24>>
                          [] rc_out.variant = "ReAuthenticate" -> <<25>>)
    /\ rc_pc = "readback" =>
        rc_out.back.tag = "Ok" /\ rc_out.back.val = <<rc_out.variant>>

\* a byte next to the table (0x1A) was rejected and ReAuthenticate was
\* written and read back
ReasonCodeWitness ==
    /\ rc_pc = "readback"
    /\ rc_byte = <<26>>
    /\ rc_ret.err = "MalformedPacket"
    /\ rc_out.variant = "ReAuthenticate"
    /\ rc_out.back.val = <<"ReAuthenticate">>

----------------------------------------------------------------------------
(* Specification SpecRead: Auth::read and AuthProperties::read on          *)
(* arbitrary input buffers                                                 *)

MaxBuf == 5

\* 0x00 zero length / Success, 0x01 and 0x04 lengths and identifiers that
\* are in the table but not legal for Auth (0x01) or not in the table
\* (0x04), the identifiers of method, data and user property, and 0xFF: a
\* continuation byte, an unknown identifier and an invalid UTF-8 byte
InputBytes == {0, 1, 4, 21, 22, 38, 255}

\* FixedHeader::fixed_header_len of a header with a 1- or 2-byte
\* remaining length
FixedHeaderLens == {2, 3}

InitRead ==
    /\ rpc = "build"
    /\ inbuf = <<>>
    /\ rd = NoResult
    /\ pr = NoResult
    /\ CodecIdle /\ ReasonIdle /\ AckIdle /\ PubIdle /\ LoopIdle

\* one more byte arrives in the input buffer
Receive ==
    /\ rpc = "build"
    /\ Len(inbuf) < MaxBuf
    /\ \E b \in InputBytes : inbuf' = Append(inbuf, b)
    /\ UNCHANGED <<rpc, rd, pr>>
    /\ UNCHANGED <<codecVars, reasonVars, ackVars, pubVars, loopVars>>

\* Auth::read(fixed_header, bytes)
CallAuthRead ==
    /\ rpc = "build"
    /\ \E fhl \in FixedHeaderLens :
        rd' = Auth_read(fhl, inbuf)
    /\ rpc' = "auth_read"
    /\ UNCHANGED <<inbuf, pr>>
    /\ UNCHANGED <<codecVars, reasonVars, ackVars, pubVars, loopVars>>

\* AuthProperties::read(&mut bytes)
CallPropertiesRead ==
    /\ rpc = "build"
    /\ pr' = AuthProperties_read(inbuf)
    /\ rpc' = "properties_read"
    /\ UNCHANGED <<inbuf, rd>>
    /\ UNCHANGED <<codecVars, reasonVars, ackVars, pubVars, loopVars>>

NextRead == Receive \/ CallAuthRead \/ CallPropertiesRead

SpecRead == InitRead /\ [][NextRead]_vars

\* the declared length of the property block at the front of inbuf and the
\* number of bytes the reader took after the length prefix
Declared == length(inbuf).val[1][2]
ConsumedAfterPrefix == Len(inbuf) - length(inbuf).val[1][1] - Len(pr.rest)

\* C4: whenever AuthProperties::read returns Ok it has consumed, after the
\* length prefix, exactly the declared property length; a block whose
\* entries do not end on the declared length is rejected.
ConsumedEqualsDeclared ==
    (rpc = "properties_read" /\ pr.tag = "Ok") =>
        ConsumedAfterPrefix = Declared

\* C6: Auth::read returns Ok or a typed Err for every buffer and fixed
\* header; it never panics.
AuthReadNeverPanics ==
    rpc = "auth_read" => rd.tag \in {"Ok", "Err"}

\* The entries of a property block as the wire format lays them out
\* (identifier, then one or two 2-byte-length-prefixed values): the first
\* identifier that is not legal for Auth and starts within the first
\* `left` bytes, as <<TRUE, id>>; <<FALSE, 0>> when there is none or an
\* entry before it is truncated or not UTF-8.
RECURSIVE FirstIllegal(_, _)
FirstIllegal(bytes, left) ==
    IF left <= 0 \/ bytes = <<>> THEN <<FALSE, 0>>
    ELSE IF bytes[1] \notin {21, 22, 31, 38} THEN <<TRUE, bytes[1]>>
    ELSE
      LET s1 == read_mqtt_bytes(Drop(bytes, 1)) IN
      IF s1.tag # "Ok" \/ (bytes[1] # 22 /\ ~IsUtf8(s1.val[1]))
      THEN <<FALSE, 0>>
      ELSE IF bytes[1] # 38
      THEN FirstIllegal(s1.rest, left - 3 - Len(s1.val[1]))
      ELSE
        LET s2 == read_mqtt_bytes(s1.rest) IN
        IF s2.tag # "Ok" \/ ~IsUtf8(s2.val[1]) THEN <<FALSE, 0>>
        ELSE FirstIllegal(s2.rest, left - 5 - Len(s1.val[1]) - Len(s2.val[1]))

\* C10: when the reader meets, inside the declared property block, an
\* identifier that is not in the property table or not one of the four
\* legal for Auth, it fails with InvalidPropertyType(identifier) and
\* returns no properties, whatever valid entries came before.
InvalidPropertyRejected ==
    (rpc = "properties_read" /\ length(inbuf).tag = "Ok") =>
        LET l == length(inbuf).val[1]
            f == FirstIllegal(Drop(inbuf, l[1]), l[2])
        IN f[1] => /\ pr.tag = "Err"
                   /\ pr.err = "InvalidPropertyType"
                   /\ pr.arg = f[2]
                   /\ pr.val = <<>>

\* a valid authentication-data entry followed, inside the declared block,
\* by identifier 0x01 (in the table, not legal for Auth)
InvalidPropertyWitness ==
    /\ rpc = "properties_read"
    /\ inbuf = <<4, 22, 0, 0, 1>>
    /\ pr.tag = "Err" /\ pr.err = "InvalidPropertyType" /\ pr.arg = 1

----------------------------------------------------------------------------
(* Specification SpecAck: inbound publishes and client.ack                 *)
(* (session state machine, manual-ack mode as set by create_conn)          *)

MaxInPkid == 2
MaxInbound == 3
MaxCalls == 6

InPkids == 1..MaxInPkid

InitAck ==
    /\ manual_acks \in BOOLEAN
    /\ conn_state = "Connected"
    /\ incoming_pub = {}
    /\ acks_sent = <<>>
    /\ inbound_n = 0
    /\ last_op = [n |-> 0, op |-> "none", pkid |-> 0, ret |-> "none"]
    /\ CodecIdle /\ ReadIdle /\ ReasonIdle /\ PubIdle /\ LoopIdle

\* an inbound qos 1 publish arrives: automatic mode acknowledges it at
\* once, manual-ack mode records it as awaiting the application's ack
RecvPublish ==
    /\ conn_state = "Connected"
    /\ inbound_n < MaxInbound
    /\ last_op.n < MaxCalls
    /\ \E p \in InPkids :
        /\ last_op' = [n |-> last_op.n + 1, op |-> "recv", pkid |-> p,
                       ret |-> "none"]
        /\ IF manual_acks
           THEN incoming_pub' = incoming_pub \cup {p} /\ UNCHANGED acks_sent
           ELSE acks_sent' = Append(acks_sent, p) /\ UNCHANGED incoming_pub
    /\ inbound_n' = inbound_n + 1
    /\ UNCHANGED <<manual_acks, conn_state>>
    /\ UNCHANGED <<codecVars, readVars, reasonVars, pubVars, loopVars>>

\* the pkid is awaiting an acknowledgment
AckKnown_always(p) == TRUE

AckKnown(p) == p \in incoming_pub

\* client.ack(&publish): the entry is removed and the PubAck enqueued, or
\* the call fails with UnknownPacketId and nothing else changes
Ack ==
    /\ last_op.n < MaxCalls
    /\ \E p \in 1..(MaxInPkid + 1) :
        IF AckKnown(p)
        THEN /\ incoming_pub' = incoming_pub \ {p}
             /\ acks_sent' = Append(acks_sent, p)
             /\ last_op' = [n |-> last_op.n + 1, op |-> "ack", pkid |-> p,
                            ret |-> "Ok"]
        ELSE /\ last_op' = [n |-> last_op.n + 1, op |-> "ack", pkid |-> p,
                            ret |-> "UnknownPacketId"]
             /\ UNCHANGED <<incoming_pub, acks_sent>>
    /\ UNCHANGED <<manual_acks, conn_state, inbound_n>>
    /\ UNCHANGED <<codecVars, readVars, reasonVars, pubVars, loopVars>>

\* client.disconnect(): Connected -> Disconnecting; pending entries stay
Disconnect ==
    /\ conn_state = "Connected"
    /\ last_op.n < MaxCalls
    /\ conn_state' = "Disconnecting"
    /\ last_op' = [n |-> last_op.n + 1, op |-> "disconnect", pkid |-> 0,
                   ret |-> "Ok"]
    /\ UNCHANGED <<manual_acks, incoming_pub, acks_sent, inbound_n>>
    /\ UNCHANGED <<codecVars, readVars, reasonVars, pubVars, loopVars>>

NextAck == RecvPublish \/ Ack \/ Disconnect

SpecAck == InitAck /\ [][NextAck]_vars

Range(s) == {s[k] : k \in 1..Len(s)}

\* C7: in manual-ack mode an inbound publish stays pending until ack is
\* called for it; the first ack for a pending pkid removes the entry and
\* enqueues the acknowledgment; an ack for a pkid that is not pending
\* (already acked, or never received) fails with UnknownPacketId and
\* leaves session state and connection unchanged.
ManualAckLifecycle ==
    [][manual_acks =>
        LET isAck == last_op'.n # last_op.n /\ last_op'.op = "ack"
            p == last_op'.pkid
        IN /\ ~isAck => incoming_pub \subseteq incoming_pub'
           /\ (isAck /\ p \in incoming_pub) =>
                /\ last_op'.ret = "Ok"
                /\ incoming_pub' = incoming_pub \ {p}
                /\ acks_sent' = Append(acks_sent, p)
           /\ (isAck /\ p \notin incoming_pub) =>
                /\ last_op'.ret = "UnknownPacketId"
                /\ UNCHANGED <<manual_acks, conn_state, incoming_pub,
                               acks_sent, inbound_n>>
    ]_vars

\* a second ack for pkid 1 has failed while pkid 2, never acked, is still
\* pending and the connection is still up
ManualAckWitness ==
    /\ manual_acks
    /\ last_op.op = "ack" /\ last_op.pkid = 1
    /\ last_op.ret = "UnknownPacketId"
    /\ 1 \in Range(acks_sent)
    /\ incoming_pub = {2}
    /\ conn_state = "Connected"

----------------------------------------------------------------------------
(* Specification SpecPub: packet identifiers of outbound qos 1 publishes   *)
(* (the publishes of requests(), PubAcks arriving in any order)            *)

NumMessages == 10

\* how far below the top of the 16-bit range a long-lived session starts
NearWrap == 3

PkidMax == 2^16 - 1

\* the wrapping 16-bit counter; identifier 0 is not a packet identifier
next_pkid(last) == IF last >= PkidMax THEN 1 ELSE last + 1

Pkids(pending) == {e.pkid : e \in pending}

\* the candidate identifier is still owed an acknowledgment
Collides_never(pkid) == FALSE

Collides(pkid) == pkid \in Pkids(outgoing_pub)

\* a new session, or a session whose counter has come close to the top of
\* its range while the publish with pkid 2 was never acknowledged
InitPub ==
    /\ \/ /\ fresh = TRUE
          /\ last_pkid = 0
          /\ outgoing_pub = {}
       \/ /\ fresh = FALSE
          /\ last_pkid \in (PkidMax - NearWrap)..PkidMax
          /\ outgoing_pub = {[pkid |-> 2, payload |-> 0]}
    /\ i = 0
    /\ run = <<>>
    /\ CodecIdle /\ ReadIdle /\ ReasonIdle /\ AckIdle /\ LoopIdle

\* client.publish(message) of requests(), payload length i + 1, handled by
\* the session: allocate the next pkid and record the pending entry; held
\* back while the next pkid is still unacknowledged
Publish ==
    /\ i < NumMessages
    /\ ~Collides(next_pkid(last_pkid))
    /\ last_pkid' = next_pkid(last_pkid)
    /\ outgoing_pub' = outgoing_pub \cup
                        {[pkid |-> next_pkid(last_pkid), payload |-> i + 1]}
    /\ i' = i + 1
    /\ run' = Append(run, next_pkid(last_pkid))
    /\ UNCHANGED fresh
    /\ UNCHANGED <<codecVars, readVars, reasonVars, ackVars, loopVars>>

\* an inbound PubAck clears the pending entry of its pkid
RecvPubAck ==
    /\ \E e \in outgoing_pub :
        outgoing_pub' = {x \in outgoing_pub : x.pkid # e.pkid}
    /\ run' = <<>>
    /\ UNCHANGED <<last_pkid, i, fresh>>
    /\ UNCHANGED <<codecVars, readVars, reasonVars, ackVars, loopVars>>

NextPub == Publish \/ RecvPubAck

SpecPub == InitPub /\ [][NextPub]_vars

----------------------------------------------------------------------------
(* Specification SpecLoop: the bounded request queue, the event loop that  *)
(* is its only consumer, and the two ways of acknowledging from the poll   *)
(* loop                                                                    *)

\* AsyncClient::new(mqttoptions, 10)
Cap == 10

\* inbound publishes the broker delivers
MaxNet == 12

InitLoop ==
    /\ mode \in {"spawn", "inline"}
    /\ request_q = <<>>
    /\ loop_pc = "poll"
    /\ tasks = 0
    /\ net_n = 0
    /\ CodecIdle /\ ReadIdle /\ ReasonIdle /\ AckIdle /\ PubIdle

\* eventloop.poll(): the next request is taken from the queue and written
PollRequest ==
    /\ loop_pc = "poll"
    /\ request_q # <<>>
    /\ request_q' = Tail(request_q)
    /\ UNCHANGED <<mode, loop_pc, tasks, net_n>>
    /\ UNCHANGED <<codecVars, readVars, reasonVars, ackVars, pubVars>>

\* eventloop.poll(): an inbound publish is returned to the caller
PollIncoming ==
    /\ loop_pc = "poll"
    /\ net_n < MaxNet
    /\ net_n' = net_n + 1
    /\ loop_pc' = "handle"
    /\ UNCHANGED <<mode, request_q, tasks>>
    /\ UNCHANGED <<codecVars, readVars, reasonVars, ackVars, pubVars>>

\* the ack is made by the polling context itself
HandleSpawn_inline ==
    /\ loop_pc = "handle"
    /\ loop_pc' = "ack"
    /\ UNCHANGED <<mode, request_q, tasks, net_n>>
    /\ UNCHANGED <<codecVars, readVars, reasonVars, ackVars, pubVars>>

\* tokio::spawn(async move { c.ack(&publish).await.unwrap(); })
HandleSpawn ==
    /\ loop_pc = "handle"
    /\ mode = "spawn"
    /\ tasks' = tasks + 1
    /\ loop_pc' = "poll"
    /\ UNCHANGED <<mode, request_q, net_n>>
    /\ UNCHANGED <<codecVars, readVars, reasonVars, ackVars, pubVars>>

\* a spawned task's c.ack(): enqueues the PubAck, suspended while the
\* queue is full
TaskAck ==
    /\ tasks > 0
    /\ Len(request_q) < Cap
    /\ request_q' = Append(request_q, "PubAck")
    /\ tasks' = tasks - 1
    /\ UNCHANGED <<mode, loop_pc, net_n>>
    /\ UNCHANGED <<codecVars, readVars, reasonVars, ackVars, pubVars>>

\* c.ack(&publish).await written directly in the poll loop
HandleInline ==
    /\ loop_pc = "handle"
    /\ mode = "inline"
    /\ loop_pc' = "ack"
    /\ UNCHANGED <<mode, request_q, tasks, net_n>>
    /\ UNCHANGED <<codecVars, readVars, reasonVars, ackVars, pubVars>>

\* the poll loop's own c.ack(): enqueues the PubAck, suspended while the
\* queue is full
InlineAck ==
    /\ loop_pc = "ack"
    /\ Len(request_q) < Cap
    /\ request_q' = Append(request_q, "PubAck")
    /\ loop_pc' = "poll"
    /\ UNCHANGED <<mode, tasks, net_n>>
    /\ UNCHANGED <<codecVars, readVars, reasonVars, ackVars, pubVars>>

NextLoop ==
    \/ PollRequest \/ PollIncoming
    \/ HandleSpawn \/ TaskAck
    \/ HandleInline \/ InlineAck

SpecLoop == InitLoop /\ [][NextLoop]_vars

\* work is outstanding and no context can take a step
Stuck ==
    /\ tasks > 0 \/ loop_pc # "poll" \/ request_q # <<>>
    /\ ~ENABLED NextLoop

\* C9: the request queue can fill up while the event-loop context itself
\* is suspended in ack only when ack is called inside the poll loop; with
\* every ack in its own task the loop always comes back to poll and the
\* system never stops with work outstanding.
NoDeadlockWhenSpawned ==
    /\ mode = "spawn" => ~Stuck /\ loop_pc # "ack"
    /\ Stuck => loop_pc = "ack" /\ Len(request_q) = Cap

\* the poll loop, acking inline, is suspended on a full queue
DeadlockWitness ==
    /\ mode = "inline"
    /\ loop_pc = "ack"
    /\ Len(request_q) = Cap
    /\ Stuck

====
